---- MODULE Spec2Model ----
(***************************************************************************)
(* Model of the FastAPI/Supabase boilerplate: the auth and user route      *)
(* handlers, the get_current_user dependency, the error taxonomy, the      *)
(* audit_action decorator, the audit logger and the JWT middleware with    *)
(* its local token verification.  The identity provider                    *)
(* (the Supabase SDK client) is the environment: each SDK call is a        *)
(* nondeterministic choice among the outcomes the SDK can produce, and the *)
(* client object shared by every request keeps its in-memory session.      *)
(*                                                                         *)
(* Text values (messages, details) are sequences of words, so that         *)
(* substring tests, lower() and f-string concatenation are computed.       *)
(***************************************************************************)
EXTENDS Integers, Sequences, FiniteSets, TLC

\* ------------------------------------------------------------------ bounds
MaxTokenSerial == 1     \* distinct token serial numbers the provider issues per user
MaxAuditTasks == 2      \* audit tasks that may be pending on the event loop

\* ------------------------------------------------------------ basic values
NONE == "<None>"                                   \* Python None for text-valued fields
Truthy(v) == v \notin {NONE, ""}                   \* Python truthiness of Optional[str]

Users == {"u1", "u2"}
Email(local) == [local |-> local, domain |-> "example.com"]
Emails == {Email(l) : l \in Users \cup {"nobody"}}
Split0(email) == email.local                       \* email.split("@")[0]
PasswordOf == [u \in Users |-> "pw"]
Passwords == {"pw", "wrong"}

\* ------------------------------------------------------------------- text
Lower(w) ==
    CASE w = "Invalid" -> "invalid"
      [] w = "JWT" -> "jwt"
      [] w = "User" -> "user"
      [] w = "Duplicate" -> "duplicate"
      [] w = "Validation" -> "validation"
      [] w = "Already" -> "already"
      [] w = "Exists" -> "exists"
      [] w = "Service" -> "service"
      [] OTHER -> w
LowerText(t) == [i \in 1..Len(t) |-> Lower(t[i])]
\* Python's  phrase in text
Contains(t, phrase) ==
    \E i \in 0..(Len(t) - Len(phrase)) :
        \A j \in 1..Len(phrase) : t[i + j] = phrase[j]

\* ------------------------------------------------------- Python outcomes
Ret(v) == [kind |-> "return", value |-> v]
Raise(e) == [kind |-> "raise", exc |-> e]
IsRaise(o) == o.kind = "raise"
NoneValue == [isNone |-> TRUE]                     \* Python None where an object is expected

\* A dict-valued Optional argument: None, or a set of <<key, value>> items.
DictNone == [isNone |-> TRUE, items |-> {}]
Dict(items) == [isNone |-> FALSE, items |-> items]
OrEmptyDict(d) == IF d.isNone \/ d.items = {} THEN Dict({}) ELSE d   \* details or {}

\* ------------------------------------------------- core/exceptions.py
AppException(cls, message, status_code, details) ==
    [cls |-> cls, message |-> message, status_code |-> status_code, details |-> OrEmptyDict(details),
     app |-> TRUE, hasMessage |-> TRUE,
     hasDetail |-> FALSE, detail |-> <<>>, text |-> message]

AuthenticationError(message, details) == AppException("AuthenticationError", message, 401, details)
AuthorizationError(message, details) == AppException("AuthorizationError", message, 403, details)
ValidationError(message, details) == AppException("ValidationError", message, 422, details)
NotFoundError(message, details) == AppException("NotFoundError", message, 404, details)
ConflictError(message, details) == AppException("ConflictError", message, 409, details)
ExternalServiceError(message, details) == AppException("ExternalServiceError", message, 502, details)

\* fastapi.HTTPException whose detail is a plain string
HTTPException(status_code, text) ==
    [cls |-> "HTTPException", status_code |-> status_code,
     detail |-> [message |-> text, details |-> Dict({}), structured |-> FALSE]]

\* mutant: the category's status is lost, every error becomes a 500
create_http_exception_500(exc) ==
    [cls |-> "HTTPException", status_code |-> 500,
     detail |-> [message |-> exc.message, details |-> exc.details, structured |-> TRUE]]

create_http_exception(exc) ==
    [cls |-> "HTTPException", status_code |-> exc.status_code,
     detail |-> [message |-> exc.message, details |-> exc.details, structured |-> TRUE]]

\* --------------------------------------- errors the provider SDK can raise
\* An SDK error carrying a .message attribute (AuthApiError, APIError).
ApiError(message) ==
    [cls |-> "AuthApiError", message |-> message, status_code |-> 0, details |-> Dict({}),
     app |-> FALSE, hasMessage |-> TRUE,
     hasDetail |-> FALSE, detail |-> <<>>, text |-> message]
\* An error without .message (httpx transport errors, AttributeError, ...).
PlainError(cls, text) ==
    [cls |-> cls, message |-> <<>>, status_code |-> 0, details |-> Dict({}),
     app |-> FALSE, hasMessage |-> FALSE,
     hasDetail |-> FALSE, detail |-> <<>>, text |-> text]
\* An error object that carries a .detail attribute (possibly empty).
DetailError(detail) ==
    [cls |-> "DetailError", message |-> <<>>, status_code |-> 0, details |-> Dict({}),
     app |-> FALSE, hasMessage |-> FALSE,
     hasDetail |-> TRUE, detail |-> detail, text |-> detail]

ProviderMessages ==
    { <<"Invalid", "JWT">>, <<"JWT", "expired">>, <<"User", "not", "found">>,
      <<"User", "Already", "Exists">>, <<"Duplicate", "username">>,
      <<"Validation", "failed">>, <<"Invalid", "login", "credentials">>,
      <<"Service", "unavailable">> }
ConnectError == PlainError("ConnectError", <<"connection", "refused">>)
\* every kind of error: with each message, without .message, with .detail
ProviderErrors ==
    { ApiError(m) : m \in ProviderMessages }
    \cup { ConnectError }
    \cup { DetailError(d) : d \in { <<>>, <<"bad", "gateway">> } }
\* errors of calls whose handler maps every error alike
OutageErrors == { ApiError(<<"Service", "unavailable">>), ConnectError }

\* ------------------------------------------------ provider data (SDK types)
TokenSerials == 1..MaxTokenSerial
\* a session the provider issues: tokens of user u with serial n
SessionFor(u, n) ==
    [isNone |-> FALSE, owner |-> u,
     access_token |-> <<"access", u, n>>, refresh_token |-> <<"refresh", u, n>>,
     expires_in |-> 1800 * n]
NoSession == [isNone |-> TRUE]
SessionsOf(u) == { SessionFor(u, n) : n \in TokenSerials }

EmptyMetadata == [username |-> NONE, full_name |-> NONE, avatar_url |-> NONE]
UserObj(u, meta) == [email |-> Email(u), isNone |-> FALSE, id |-> u, user_metadata |-> meta]
NoUser == [isNone |-> TRUE]

\* ----------------------------------------------------------- HTTP responses
NoBody == [type |-> "none"]
NoDetail == [message |-> <<>>, details |-> Dict({}), structured |-> FALSE]
\* What the framework sends for a handler outcome: 200 with the returned
\* model, the HTTPException's status and detail, or a bare 500 for anything else.
Respond(out) ==
    IF ~IsRaise(out)
    THEN [detail |-> NoDetail, status |-> 200, body |-> out.value, unhandled |-> FALSE]
    ELSE IF out.exc.cls = "HTTPException"
    THEN [detail |-> out.exc.detail, status |-> out.exc.status_code,
          body |-> NoBody, unhandled |-> FALSE]
    ELSE [detail |-> NoDetail, status |-> 500, body |-> NoBody, unhandled |-> TRUE]

Call(op, result) == [op |-> op, result |-> result]
Ops(calls) == { calls[i].op : i \in 1..Len(calls) }

\* ------------------------------------- schemas/auth.py : request bodies
Missing == "<missing>"                            \* a field the JSON body does not carry
MalformedEmail == [local |-> "invalid-email", domain |-> ""]       \* "invalid-email"
MissingEmail == [local |-> Missing, domain |-> Missing]
\* pydantic's EmailStr: a local part, "@" and a domain
EmailStr(e) == e.local \notin {Missing, ""} /\ e.domain \notin {Missing, ""}

\* mutant: password is declared Optional[str] = None
RequiredFields_optional_password(schema) == {"email"}

\* the fields each body schema declares without a default
RequiredFields(schema) ==
    CASE schema = "UserLogin" -> {"email", "password"}
      [] schema = "UserRegister" -> {"email", "password"}
      [] schema = "PasswordReset" -> {"email"}

Validates(schema, body) ==
    \A f \in RequiredFields(schema) :
        IF f = "email" THEN EmailStr(body.email) ELSE body[f] # Missing

\* ------------------------------------------------ api/auth.py : login
UserLogin == [email : Emails, password : Passwords]

\* str(getattr(e, "detail", None))
StrDetailOf(e) == IF e.hasDetail THEN e.detail ELSE <<"None">>
OrText(a, b) == IF a # <<>> THEN a ELSE b              \* a or b  on str

\* mutant: the refresh token of the response is filled from the access token
login_try_swapped(user, r) ==
    IF IsRaise(r) THEN r
    ELSE IF r.value.user.isNone \/ r.value.session.isNone
    THEN Raise(AuthenticationError(<<"Invalid", "credentials">>, DictNone))
    ELSE Ret([access_token |-> r.value.session.access_token,
              refresh_token |-> r.value.session.access_token,
              expires_in |-> r.value.session.expires_in,
              type |-> "TokenResponse",
              user |-> [email |-> r.value.user.email,
                        username |-> IF Truthy(r.value.user.user_metadata.username)
                                     THEN r.value.user.user_metadata.username
                                     ELSE Split0(user.email),
                        full_name |-> r.value.user.user_metadata.full_name],
              token_type |-> "bearer"])

login_try(user, r) ==
    IF IsRaise(r) THEN r
    ELSE IF r.value.user.isNone \/ r.value.session.isNone
    THEN Raise(AuthenticationError(<<"Invalid", "credentials">>, DictNone))
    ELSE Ret([access_token |-> r.value.session.access_token,
              refresh_token |-> r.value.session.refresh_token,
              expires_in |-> r.value.session.expires_in,
              type |-> "TokenResponse",
              user |-> [email |-> r.value.user.email,
                        username |-> IF Truthy(r.value.user.user_metadata.username)
                                     THEN r.value.user.user_metadata.username
                                     ELSE Split0(user.email),
                        full_name |-> r.value.user.user_metadata.full_name],
              token_type |-> "bearer"])

login_except(e) ==
    IF e.cls \in {"AuthenticationError", "ValidationError"}
    THEN create_http_exception(e)
    ELSE HTTPException(400, OrText(StrDetailOf(e), <<"Invalid", "credentials">>))

login(user, r) ==
    LET o == login_try(user, r)
    IN [out |-> IF IsRaise(o) THEN Raise(login_except(o.exc)) ELSE o,
        calls |-> << Call("sign_in_with_password", r) >>]

\* ------------------------------------- core/dependencies.py : bearer auth
NoBearer == [present |-> FALSE]
Bearer(token) == [present |-> TRUE, token |-> token]
PresentedTokens == { <<"access", u, 1>> : u \in Users } \cup { <<"garbage">> }
Bearers == {NoBearer} \cup { Bearer(t) : t \in PresentedTokens }

\* security = HTTPBearer(): with no Authorization header the framework
\* raises "Not authenticated", 403 or 401 depending on the FastAPI release.
security(bearer) ==
    IF bearer.present THEN {Ret(bearer)}
    ELSE { Raise(HTTPException(code, <<"Not", "authenticated">>)) : code \in {401, 403} }

\* reading an attribute of None, or of an object that lacks it
AttributeError == PlainError("AttributeError", <<"NoneType", "has", "no", "attribute">>)

get_current_user_try(credentials, r) ==
    IF IsRaise(r) THEN r
    ELSE IF r.value.isNone THEN Raise(AttributeError)          \* response.user of a malformed response
    ELSE IF r.value.user.isNone
    THEN Raise(AuthenticationError(<<"Invalid", "Token">>, DictNone))
    ELSE Ret([email |-> r.value.user.email,
              id |-> r.value.user.id,
              user_metadata |-> r.value.user.user_metadata,
              role |-> "user"])

\* mutant: errors other than AuthenticationError are left to the generic 500 answer
get_current_user_except_500(e) ==
    IF e.cls = "AuthenticationError"
    THEN create_http_exception(e)
    ELSE HTTPException(500, <<"Could", "not", "validate", "credentials">>)

get_current_user_except(e) ==
    IF e.cls = "AuthenticationError"
    THEN create_http_exception(e)
    ELSE HTTPException(401, <<"Could", "not", "validate", "credentials">>)

get_current_user(credentials, r) ==
    LET o == get_current_user_try(credentials, r)
    IN [out |-> IF IsRaise(o) THEN Raise(get_current_user_except(o.exc)) ELSE o,
        calls |-> << Call("get_user(token)", r) >>]

\* get_optional_current_user: None without credentials, and None where
\* get_current_user raises an HTTPException
get_optional_current_user(credentials, r) ==
    IF ~credentials.present THEN [out |-> Ret(NoneValue), calls |-> << >>]
    ELSE LET d == get_current_user(credentials, r)
         IN [out |-> IF IsRaise(d.out) /\ d.out.exc.cls = "HTTPException"
                     THEN Ret(NoneValue) ELSE d.out,
             calls |-> d.calls]

\* ------------------------------------------------ api/auth.py : logout
\* mutant: the value sign_out returns (None) is tested as a success flag
logout_checks_result(current_user, r) ==
    [out |-> Raise(HTTPException(500, <<"Logout", "failed">>)),
     calls |-> << Call("sign_out", r) >>]

logout(current_user, r) ==
    [out |-> IF IsRaise(r)
             THEN Raise(HTTPException(500, <<"Logout", "failed">>))
             ELSE Ret([message |-> <<"Successfully", "logged", "out">>, type |-> "dict"]),
     calls |-> << Call("sign_out", r) >>]

\* ------------------------------------------- api/user.py : get_user_profile
AppErrorClasses ==
    {"AuthenticationError", "ValidationError", "NotFoundError", "ConflictError",
     "ExternalServiceError"}

get_user_profile_try(r) ==
    IF IsRaise(r) THEN r
    ELSE IF r.value.isNone THEN Raise(AttributeError)          \* None.user
    ELSE IF r.value.user.isNone
    THEN Raise(NotFoundError(<<"User", "profile", "not", "found">>, DictNone))
    ELSE Ret([username |-> r.value.user.user_metadata.username,
              full_name |-> r.value.user.user_metadata.full_name,
              avatar_url |-> r.value.user.user_metadata.avatar_url,
              type |-> "UserProfileResponse"])

\* mutant: errors without a .message attribute are re-raised as they are
get_user_profile_except_reraise(e) ==
    IF e.cls \in AppErrorClasses THEN create_http_exception(e)
    ELSE IF e.hasMessage
    THEN create_http_exception(
             ExternalServiceError(<<"Failed", "to", "fetch", "profile:">> \o e.message, DictNone))
    ELSE e

get_user_profile_except(e) ==
    IF e.cls \in AppErrorClasses THEN create_http_exception(e)
    ELSE IF e.hasMessage
    THEN IF Contains(e.message, <<"Invalid", "JWT">>) \/ Contains(e.message, <<"JWT", "expired">>)
         THEN create_http_exception(
                  AuthenticationError(<<"Session", "expired.", "Please", "login", "again.">>, DictNone))
         ELSE IF Contains(e.message, <<"User", "not", "found">>)
         THEN create_http_exception(NotFoundError(<<"User", "profile", "not", "found">>, DictNone))
         ELSE create_http_exception(
                  ExternalServiceError(<<"Failed", "to", "fetch", "profile:">> \o e.message, DictNone))
    ELSE HTTPException(500, <<"Failed", "to", "fetch", "user", "profile">>)

get_user_profile(current_user, r) ==
    LET o == get_user_profile_try(r)
    IN [out |-> IF IsRaise(o) THEN Raise(get_user_profile_except(o.exc)) ELSE o,
        calls |-> << Call("get_user()", r) >>]

\* ------------------------------------------------------------ JSON values
JStr(v) == [v |-> v, t |-> "str"]
JNull == [t |-> "null"]
JDict(items) == [t |-> "dict", items |-> items]      \* items: set of <<key, value>>
JList(elems) == [t |-> "list", elems |-> elems]      \* elems: sequence of values

\* ------------------------------------------ utils/audit_logger.py (helpers)
sensitive_fields ==
    {"password", "current_password", "new_password", "confirm_password", "token",
     "access_token", "refresh_token", "secret", "api_key", "private_key"}
LowerKey(k) ==
    CASE k = "Password" -> "password"
      [] k = "TOKEN" -> "token"
      [] k = "Api_Key" -> "api_key"
      [] OTHER -> k

RECURSIVE sanitize_request_body(_)
sanitize_request_body(body) ==
    IF body.t # "dict" THEN body
    ELSE JDict({ << it[1],
                    IF LowerKey(it[1]) \in sensitive_fields THEN JStr("[REDACTED]")
                    ELSE IF it[2].t = "dict" THEN sanitize_request_body(it[2])
                    ELSE it[2] >> : it \in body.items })

\* request_body, status_code, additional_data -> metadata dict
NoRequestBody == [t |-> "absent"]
create_audit_metadata(request_body, status_code, additional_data) ==
    [status_code |-> status_code,
     request_body |-> IF request_body.t # "absent"
                      THEN sanitize_request_body(request_body) ELSE request_body,
     extra |-> IF additional_data.isNone THEN {} ELSE additional_data.items]

\* ------------------------------------------ utils/audit_decorator.py
\* str(e) of the exception a handler raised
StrExc(e) ==
    IF e.cls = "HTTPException"
    THEN << ToString(e.status_code) \o ":" >> \o e.detail.message
    ELSE e.text

AuditTask(user_id, action, resource, metadata) ==
    [user_id |-> user_id, action |-> action, resource |-> resource, metadata |-> metadata]

RuntimeError == PlainError("RuntimeError", <<"no", "running", "event", "loop">>)

\* async_wrapper: runs on the event loop, so asyncio.create_task always schedules.
async_wrapper(action, resource, user_id, request_body, o) ==
    IF ~IsRaise(o)
    THEN [out |-> o,
          scheduled |-> << AuditTask(user_id, action, resource,
                                     create_audit_metadata(request_body, 200, DictNone)) >>]
    ELSE [out |-> o,
          scheduled |-> << AuditTask(user_id, action \o "_FAILED", resource,
                                     create_audit_metadata(request_body, 500,
                                         Dict({<<"error", StrExc(o.exc)>>}))) >>]

\* sync_wrapper: asyncio.create_task raises RuntimeError when the calling
\* thread has no running event loop.  A failure of the first create_task is
\* caught by the wrapper's own "except Exception", whose create_task fails the
\* same way, so the RuntimeError leaves the wrapper.
sync_wrapper(action, resource, user_id, o, loopRunning) ==
    IF loopRunning
    THEN IF ~IsRaise(o)
         THEN [out |-> o,
               scheduled |-> << AuditTask(user_id, action, resource,
                                          create_audit_metadata(NoRequestBody, 200, DictNone)) >>]
         ELSE [out |-> o,
               scheduled |-> << AuditTask(user_id, action \o "_FAILED", resource,
                                          create_audit_metadata(NoRequestBody, 500,
                                              Dict({<<"error", StrExc(o.exc)>>}))) >>]
    ELSE [out |-> Raise(RuntimeError), scheduled |-> << >>]

\* --------------------------------------- api/user.py : update_user_profile
ProfileFields == {"username", "full_name", "avatar_url"}
\* request bodies: every combination of absent/null and empty fields, and
\* bodies that set the username alone or all three fields
UserProfileUpdate ==
    [ProfileFields -> {NONE, ""}]
    \cup { [f \in ProfileFields |-> IF f = "username" THEN "v" ELSE blank] : blank \in {NONE, ""} }
    \cup { [f \in ProfileFields |-> "v"] }

\* update_data: the fields of the request that are truthy
\* mutant: "is not None" instead of truthiness, so empty strings count as data
update_data_of_not_none(profile_update) ==
    { <<f, profile_update[f]>> : f \in {g \in ProfileFields : profile_update[g] # NONE} }

update_data_of(profile_update) ==
    { <<f, profile_update[f]>> : f \in {g \in ProfileFields : Truthy(profile_update[g])} }

ProfileOf(meta) ==
    [username |-> meta.username, full_name |-> meta.full_name,
     avatar_url |-> meta.avatar_url, type |-> "UserProfileResponse"]

update_user_profile_try(profile_update, r) ==
    IF update_data_of(profile_update) = {}
    THEN Raise(ValidationError(<<"No", "profile", "data", "provided", "for", "update">>, DictNone))
    ELSE IF IsRaise(r) THEN r
    ELSE IF r.value.user.isNone
    THEN Raise(ExternalServiceError(<<"Failed", "to", "update", "profile">>, DictNone))
    ELSE Ret([type |-> "UserProfileUpdateResponse", status |-> "success",
              user |-> ProfileOf(r.value.user.user_metadata)])

update_user_profile_except(e) ==
    IF e.cls \in AppErrorClasses THEN create_http_exception(e)
    ELSE IF e.hasMessage
    THEN IF Contains(e.message, <<"Invalid", "JWT">>) \/ Contains(e.message, <<"JWT", "expired">>)
         THEN create_http_exception(
                  AuthenticationError(<<"Session", "expired.", "Please", "login", "again.">>, DictNone))
         ELSE IF Contains(e.message, <<"User", "not", "found">>)
         THEN create_http_exception(NotFoundError(<<"User", "profile", "not", "found">>, DictNone))
         ELSE IF Contains(LowerText(e.message), <<"already", "exists">>)
                 \/ Contains(LowerText(e.message), <<"duplicate">>)
         THEN create_http_exception(
                  ConflictError(<<"Username", "already", "exists.", "Please", "choose",
                                  "a", "different", "username.">>, DictNone))
         ELSE IF Contains(LowerText(e.message), <<"validation">>)
         THEN create_http_exception(
                  ValidationError(<<"Invalid", "profile", "data:">> \o e.message, DictNone))
         ELSE create_http_exception(
                  ExternalServiceError(<<"Failed", "to", "update", "profile:">> \o e.message, DictNone))
    ELSE HTTPException(500, <<"Failed", "to", "update", "user", "profile">>)

\* the undecorated handler
update_user_profile(profile_update, current_user, r) ==
    LET o == update_user_profile_try(profile_update, r)
    IN [out |-> IF IsRaise(o) THEN Raise(update_user_profile_except(o.exc)) ELSE o,
        calls |-> IF update_data_of(profile_update) = {} THEN << >>
                  ELSE << Call("update_user", r) >>]

\* ----------------------------------------------- api/user.py : delete_user
delete_user_try(r) ==
    IF IsRaise(r) THEN r
    ELSE IF r.value.user.isNone
    THEN Raise(ExternalServiceError(<<"Failed", "to", "delete", "user">>, DictNone))
    ELSE Ret([message |-> <<"User", "deleted", "successfully">>, type |-> "DeleteUserResponse",
              status |-> "success"])

delete_user(current_user, r) ==
    LET o == delete_user_try(r)
    IN [out |-> IF IsRaise(o)
                THEN Raise(HTTPException(500, <<"Failed", "to", "delete", "user">>))
                ELSE o,
        calls |-> << Call("delete_user", r) >>]

\* --------------------------------------- api/auth.py : get_current_user_info
get_current_user_info(current_user) ==
    [out |-> Ret([email |-> current_user.email, username |-> current_user.user_metadata.username,
                  full_name |-> current_user.user_metadata.full_name,
                  id |-> current_user.id,
                  type |-> "UserResponse"]),
     calls |-> << >>]

\* ------------------------------------------------ api/auth.py : refresh_token
RefreshInputs == { <<"refresh", u, 1>> : u \in Users } \cup { <<"garbage">> }

refresh_token_try(r) ==
    IF IsRaise(r) THEN r
    ELSE IF r.value.session.isNone
    THEN Raise(AuthenticationError(<<"Invalid", "refresh", "token">>, DictNone))
    ELSE IF r.value.user.isNone THEN Raise(AttributeError)       \* None.user_metadata
    ELSE Ret([access_token |-> r.value.session.access_token,
              refresh_token |-> r.value.session.refresh_token,
              expires_in |-> r.value.session.expires_in,
              type |-> "TokenResponse",
              user |-> [email |-> r.value.user.email,
                        username |-> IF Truthy(r.value.user.user_metadata.username)
                                     THEN r.value.user.user_metadata.username
                                     ELSE Split0(r.value.user.email),
                        full_name |-> r.value.user.user_metadata.full_name],
              token_type |-> "bearer"])

refresh_token(token, r) ==
    LET o == refresh_token_try(r)
    IN [out |-> IF IsRaise(o)
                THEN Raise(HTTPException(401, <<"Token", "refresh", "failed">>))
                ELSE o,
        calls |-> << Call("refresh_session", r) >>]

\* ------------------------------------------------ api/auth.py : register
UserRegister == [email : Emails, password : {"pw"}, full_name : {"v"}, username : {NONE, "v"}]

\* u.get("raw_user_meta_data", {}).get(key, "")
RowMetaGet(row, key) ==
    IF ~row.has_meta THEN ""
    ELSE IF row.raw_user_meta_data[key] = NONE THEN "" ELSE row.raw_user_meta_data[key]

\* mutant: an existing record is reported as a conflict error
register_try_conflict(user, lookup, r) ==
    IF IsRaise(lookup) THEN lookup
    ELSE IF ~lookup.value.isNone /\ ~lookup.value.data.isNone
    THEN Raise(ValidationError(<<"User", "is", "already", "registered">>, DictNone))
    ELSE IF IsRaise(r) THEN r
    ELSE IF r.value.user.isNone
    THEN Raise(ValidationError(<<"Registration", "failed">>, DictNone))
    ELSE Ret([message |-> <<>>, type |-> "RegisterUserResponse",
              status |-> "success",
              user |-> [email |-> r.value.user.email,
                        username |-> user.username,
                        full_name |-> user.full_name,
                        id |-> r.value.user.id]])

register_try(user, lookup, r) ==
    IF IsRaise(lookup) THEN lookup
    ELSE IF ~lookup.value.isNone /\ ~lookup.value.data.isNone
    THEN Ret([message |-> <<"User", "is", "already", "registered">>, type |-> "RegisterUserResponse",
              status |-> "exists",
              user |-> [email |-> lookup.value.data.email,
                        username |-> RowMetaGet(lookup.value.data, "username"),
                        full_name |-> RowMetaGet(lookup.value.data, "full_name"),
                        id |-> lookup.value.data.id]])
    ELSE IF IsRaise(r) THEN r
    ELSE IF r.value.user.isNone
    THEN Raise(ValidationError(<<"Registration", "failed">>, DictNone))
    ELSE Ret([message |-> <<>>, type |-> "RegisterUserResponse",
              status |-> "success",
              user |-> [email |-> r.value.user.email,
                        username |-> user.username,
                        full_name |-> user.full_name,
                        id |-> r.value.user.id]])

register_except(e) ==
    IF e.cls \in {"AuthenticationError", "ValidationError"}
    THEN create_http_exception(e)
    ELSE HTTPException(400, <<"Registration", "failed">>)

register(user, lookup, r) ==
    LET o == register_try(user, lookup, r)
    IN [out |-> IF IsRaise(o) THEN Raise(register_except(o.exc)) ELSE o,
        calls |-> IF IsRaise(lookup)
                     \/ (~lookup.value.isNone /\ ~lookup.value.data.isNone)
                  THEN << Call("table(users).select", lookup) >>
                  ELSE << Call("table(users).select", lookup), Call("sign_up", r) >>]

\* --------------------------------------------- api/auth.py : forgot_password
forgot_password(email, r) ==
    [out |-> IF IsRaise(r)
             THEN Raise(HTTPException(500, <<"Failed", "to", "send", "password", "reset", "email">>))
             ELSE Ret([message |-> <<"Password", "reset", "email", "sent">>, type |-> "dict"]),
     calls |-> << Call("reset_password_email", r) >>]

\* ---------------------------------------------- api/auth.py : reset_password
PasswordResetConfirm == [token : PresentedTokens, password : {"new"}]

reset_password_try(set, upd) ==
    IF IsRaise(set) THEN set
    ELSE IF set.value.session.isNone
    THEN Raise(ValidationError(<<"Failed", "to", "establish", "session">>, DictNone))
    ELSE IF IsRaise(upd) THEN upd
    ELSE IF upd.value.user.isNone
    THEN Raise(ValidationError(<<"Password", "reset", "failed">>, DictNone))
    ELSE Ret([message |-> <<"Password", "successfully", "reset">>, type |-> "dict"])

\* mutant: the ValidationError branch is missing, every error becomes a 500
reset_password_except_500(e) ==
    HTTPException(500, <<"Password", "reset", "failed">>)

reset_password_except(e) ==
    IF e.cls = "ValidationError" THEN create_http_exception(e)
    ELSE HTTPException(500, <<"Password", "reset", "failed">>)

reset_password(confirm, set, upd) ==
    LET o == reset_password_try(set, upd)
    IN [out |-> IF IsRaise(o) THEN Raise(reset_password_except(o.exc)) ELSE o,
        calls |-> IF IsRaise(set) \/ set.value.session.isNone
                  THEN << Call("set_session", set) >>
                  ELSE << Call("set_session", set), Call("update_user", upd) >>]

\* ------------------------------------ utils/audit_logger.py : log_audit_action
\* Python's isinstance(e, (ValueError, ConnectionError, TimeoutError)),
\* subclasses included
CaughtByAuditLogger(e) ==
    e.cls \in {"ValueError", "ConnectionError", "TimeoutError",
               "ConnectionRefusedError", "JSONDecodeError"}

\* client: result of get_supabase_admin_client(); insert: result of
\* supabase_admin.table("audit_logs").insert(audit_record).execute()
log_audit_action(task, client, insert) ==
    IF IsRaise(client)
    THEN IF CaughtByAuditLogger(client.exc) THEN Ret(NoneValue) ELSE client
    ELSE IF IsRaise(insert)
    THEN IF CaughtByAuditLogger(insert.exc) THEN Ret(NoneValue) ELSE insert
    ELSE Ret(NoneValue)

\* utils/supabase_client.py : get_supabase_admin_client
get_supabase_admin_client(service_role_key, created) ==
    IF ~Truthy(service_role_key)
    THEN Raise(PlainError("ValueError", <<"Service", "role", "key", "not", "configured">>))
    ELSE created

\* ===================================== middlewares/jwt_middleware.py
\* A URL path is the sequence of its pieces, "/" being a piece of its own:
\* /auth/login-as is <<"/", "auth", "/", "login", "-as">>.
\* Python's  path.startswith(prefix)
startswith(path, prefix) ==
    /\ Len(prefix) <= Len(path)
    /\ SubSeq(path, 1, Len(prefix)) = prefix

\* JWTMiddleware.__init__ : the default exclude_paths
exclude_paths ==
    { <<"/", "docs">>, <<"/", "redoc">>, <<"/", "openapi.json">>,
      <<"/", "auth", "/", "login">>, <<"/", "auth", "/", "register">>,
      <<"/", "auth", "/", "forgot-password">>, <<"/", "auth", "/", "reset-password">>,
      <<"/", "health">> }

\* One whitespace-separated word of a header value.  A word that has the
\* form of a JWT carries what the token says: whether its signature was made
\* with settings.jwt_secret_key and settings.jwt_algorithm, and its claims.
AbsentClaim == "<absent>"
NoExp == [present |-> FALSE, at |-> 0]
Exp(at) == [present |-> TRUE, at |-> at]
Word(text) == [text |-> text, isJwt |-> FALSE]
Jwt(signed, exp, sub, role) ==
    [text |-> "jwt", role |-> role, isJwt |-> TRUE, signed |-> signed, exp |-> exp, sub |-> sub]

\* request.headers.get("Authorization"): None, or a string that split() cuts into words
NoHeader == [present |-> FALSE, empty |-> TRUE, words |-> << >>]
Header(words) == [present |-> TRUE, empty |-> FALSE, words |-> words]
EmptyHeader == [present |-> TRUE, empty |-> TRUE, words |-> << >>]

SchemeLower(w) ==
    CASE w = "Bearer" -> "bearer"
      [] w = "BEARER" -> "bearer"
      [] w = "Basic" -> "basic"
      [] OTHER -> w

\* mutant: the scheme is not looked at
get_jwt_token_from_header_any_scheme(authorization) ==
    IF ~authorization.present \/ authorization.empty
    THEN Raise(HTTPException(401, <<"Authorization", "header", "missing">>))
    ELSE IF Len(authorization.words) # 2
    THEN Raise(HTTPException(401, <<"Invalid", "authorization", "header", "format">>))
    ELSE Ret(authorization.words[2])

get_jwt_token_from_header(authorization) ==
    IF ~authorization.present \/ authorization.empty
    THEN Raise(HTTPException(401, <<"Authorization", "header", "missing">>))
    ELSE IF Len(authorization.words) # 2        \* scheme, token = ... : ValueError
    THEN Raise(HTTPException(401, <<"Invalid", "authorization", "header", "format">>))
    ELSE IF SchemeLower(authorization.words[1].text) # "bearer"
    THEN Raise(HTTPException(401, <<"Invalid", "authentication", "scheme">>))
    ELSE Ret(authorization.words[2])

\* The clock during one verification: jose reads whole seconds, the code
\* reads datetime.now() afterwards, at or after the start of second later.sec.
Clock(sec, later_sec, past) == [sec |-> sec, later |-> [sec |-> later_sec, past |-> past]]
\* datetime.fromtimestamp(at) < now
Before(at, now) == at < now.sec \/ (at = now.sec /\ now.past)
\* timestamps datetime.fromtimestamp() can represent
TimestampRange == 0..5

\* jose: JWTError and its subclasses ExpiredSignatureError, JWTClaimsError
IsJWTError(e) == e.cls \in {"JWTError", "ExpiredSignatureError", "JWTClaimsError"}

\* mutant: the signature is not verified
jwt_decode_unverified(token, sec) ==
    IF ~token.isJwt
    THEN Raise(PlainError("JWTError", <<"Not", "enough", "segments">>))
    ELSE IF token.exp.present /\ token.exp.at < sec
    THEN Raise(PlainError("ExpiredSignatureError", <<"Signature", "has", "expired">>))
    ELSE Ret(token)

\* jose.jwt.decode(token, settings.jwt_secret_key, algorithms=[settings.jwt_algorithm])
\* when the clock reads sec: the payload, or a JWTError
jwt_decode(token, sec) ==
    IF ~token.isJwt
    THEN Raise(PlainError("JWTError", <<"Not", "enough", "segments">>))
    ELSE IF ~token.signed
    THEN Raise(PlainError("JWTError", <<"Signature", "verification", "failed">>))
    ELSE IF token.exp.present /\ token.exp.at < sec
    THEN Raise(PlainError("ExpiredSignatureError", <<"Signature", "has", "expired">>))
    ELSE Ret(token)

\* payload.get(name) and payload.get(name, default)
payload_get(claim, default) == IF claim = AbsentClaim THEN default ELSE claim

verify_jwt_token_locally_try(token, clock) ==
    LET decoded == jwt_decode(token, clock.sec)
    IN IF IsRaise(decoded) THEN decoded
       ELSE LET payload == decoded.value
                exp == payload.exp
                user_id == payload_get(payload.sub, NONE)
            IN IF exp.present /\ exp.at # 0 /\ exp.at \notin TimestampRange
               THEN Raise(PlainError("OverflowError", <<"timestamp", "out", "of", "range">>))
               ELSE IF exp.present /\ exp.at # 0 /\ Before(exp.at, clock.later)
               THEN Raise(AuthenticationError(<<"Token", "has", "expired">>, DictNone))
               ELSE IF ~Truthy(user_id)
               THEN Raise(AuthenticationError(<<"Invalid", "token", "payload">>, DictNone))
               ELSE Ret([isNone |-> FALSE, id |-> user_id,
                         role |-> payload_get(payload.role, "user"), exp |-> exp])

verify_jwt_token_locally_except(e) ==
    IF IsJWTError(e) THEN HTTPException(401, <<"Invalid", "JWT", "token">>)
    ELSE IF e.cls = "AuthenticationError" THEN create_http_exception(e)
    ELSE HTTPException(401, <<"Token", "verification", "failed">>)

verify_jwt_token_locally(token, clock) ==
    LET o == verify_jwt_token_locally_try(token, clock)
    IN IF IsRaise(o) THEN Raise(verify_jwt_token_locally_except(o.exc)) ELSE o

verify_jwt_token(token, clock) == verify_jwt_token_locally(token, clock)

\* JSONResponse(status_code=e.status_code, content={"detail": e.detail})
JSONResponse(e) == [status_code |-> e.status_code, detail |-> e.detail]
NotVerified == [out |-> Ret(NoneValue), token |-> Word("none"), called |-> FALSE]
Verified(token, out) == [out |-> out, token |-> token, called |-> TRUE]

\* JWTMiddleware.__call__(scope, receive, send): what it leaves in
\* scope["user"], how often it calls the downstream app, the responses it
\* sends itself, and the call of verify_jwt_token it made
JWTMiddleware_call(scope, clock) ==
    LET through == [user |-> NoUser, app_calls |-> 1, sent |-> << >>, verify |-> NotVerified]
        token == get_jwt_token_from_header(scope.authorization)
        user == verify_jwt_token(token.value, clock)
    IN IF scope.type # "http" THEN through
       ELSE IF \E excluded \in exclude_paths : startswith(scope.path, excluded) THEN through
       ELSE IF IsRaise(token)
       THEN [user |-> NoUser, app_calls |-> 0, sent |-> << JSONResponse(token.exc) >>,
             verify |-> NotVerified]
       ELSE IF IsRaise(user)
       THEN [user |-> NoUser, app_calls |-> 0, sent |-> << JSONResponse(user.exc) >>,
             verify |-> Verified(token.value, user)]
       ELSE [user |-> user.value, app_calls |-> 1, sent |-> << >>,
             verify |-> Verified(token.value, user)]

\* ================================================================ provider
\* The Supabase SDK client as the handlers see it.  Each operator gives the
\* set of results the call named in its comment can produce in the current
\* provider state; the handler code above decides what to do with each.
InvalidLoginError == ApiError(<<"Invalid", "login", "credentials">>)
SessionMissingError == ApiError(<<"Auth", "session", "missing!">>)
OutageRaises == { Raise(e) : e \in OutageErrors }
LoginRaises ==
    OutageRaises \cup { Raise(DetailError(d)) : d \in { <<>>, <<"bad", "gateway">> } }
ProfileRaises == { Raise(e) : e \in { x \in ProviderErrors : ~x.hasDetail } }
IsAccessTokenOf(token, u) == Len(token) = 3 /\ token[1] = "access" /\ token[2] = u
IsRefreshTokenOf(token, u) == Len(token) = 3 /\ token[1] = "refresh" /\ token[2] = u
AuthResponse(user, session) == [isNone |-> FALSE, user |-> user, session |-> session]
UserResponse(user) == [isNone |-> FALSE, user |-> user]

Accepts(creds) ==
    creds.email.local \in Users /\ creds.password = PasswordOf[creds.email.local]

\* the ways the provider reports that it does not accept the credentials
RejectionReports(creds, metadata) ==
    { Ret(AuthResponse(NoUser, NoSession)), Raise(InvalidLoginError) }
    \cup { Ret(AuthResponse(UserObj(u, metadata[u]), NoSession)) :
              u \in {creds.email.local} \cap Users }

\* supabase.auth.sign_in_with_password(credentials)
SignInResults(creds, metadata) ==
    IF Accepts(creds)
    THEN { Ret(AuthResponse(UserObj(creds.email.local, metadata[creds.email.local]), s)) :
              s \in SessionsOf(creds.email.local) }
         \cup LoginRaises
    ELSE RejectionReports(creds, metadata) \cup LoginRaises

\* supabase.auth.get_user(token)
GetUserByTokenResults(token, metadata) ==
    { Ret(UserResponse(UserObj(u, metadata[u]))) : u \in {v \in Users : IsAccessTokenOf(token, v)} }
    \cup (IF \E v \in Users : IsAccessTokenOf(token, v) THEN {}
          ELSE {Ret(UserResponse(NoUser)), Raise(ApiError(<<"Invalid", "JWT">>))})
    \cup {Ret(NoneValue)}            \* a response without the attributes the code reads
    \cup OutageRaises

\* supabase.auth.get_user(): the user of the session the client holds
GetUserStoredResults(session, metadata) ==
    IF session.isNone THEN {Ret(NoneValue)}
    ELSE { Ret(UserResponse(UserObj(session.owner, metadata[session.owner]))),
           Ret(UserResponse(NoUser)) } \cup ProfileRaises

\* supabase.auth.sign_out()
SignOutResults == {Ret(NoneValue)} \cup OutageRaises

Merge(meta, data) ==
    [f \in ProfileFields |-> IF \E it \in data : it[1] = f
                             THEN (CHOOSE it \in data : it[1] = f)[2] ELSE meta[f]]

\* supabase.auth.update_user(attributes): acts on the session the client holds
UpdateUserResults(session, metadata, data, raises) ==
    IF session.isNone THEN {Raise(SessionMissingError)}
    ELSE { Ret(UserResponse(UserObj(session.owner, Merge(metadata[session.owner], data)))),
           Ret(UserResponse(NoUser)) } \cup raises

\* supabase.auth.delete_user()
DeleteUserResults(session, metadata) ==
    {Raise(AttributeError)} \cup
    (IF session.isNone THEN {Raise(SessionMissingError)}
     ELSE { Ret(UserResponse(UserObj(session.owner, metadata[session.owner]))),
            Ret(UserResponse(NoUser)) } \cup OutageRaises)

\* supabase.auth.refresh_session(refresh_token)
RefreshResults(token, metadata) ==
    UNION { { Ret(AuthResponse(UserObj(u, metadata[u]), s)) : s \in SessionsOf(u) } :
              u \in {v \in Users : IsRefreshTokenOf(token, v)} }
    \cup (IF \E v \in Users : IsRefreshTokenOf(token, v) THEN {}
          ELSE {Ret(AuthResponse(NoUser, NoSession))})
    \cup OutageRaises

\* supabase.auth.set_session(access_token, refresh_token)
SetSessionResults(token, metadata) ==
    { Ret(AuthResponse(UserObj(u, metadata[u]), SessionFor(u, token[3]))) :
          u \in {v \in Users : IsAccessTokenOf(token, v)} }
    \cup (IF \E v \in Users : IsAccessTokenOf(token, v) THEN {}
          ELSE {Ret(AuthResponse(NoUser, NoSession))})
    \cup OutageRaises

\* supabase.table("users").select("*").eq("email", email).maybe_single().execute()
Row(local, metadata, has_meta) ==
    [email |-> Email(local), isNone |-> FALSE, id |-> local, has_meta |-> has_meta,
     raw_user_meta_data |-> IF local \in Users THEN metadata[local] ELSE EmptyMetadata]
\* The users table is filled outside this code base; it holds a row per account.
Registered == Users
LookupResults(email, metadata) ==
    (IF email.local \in Registered
     THEN { Ret([isNone |-> FALSE, data |-> Row(email.local, metadata, m)]) : m \in BOOLEAN }
     ELSE { Ret(NoneValue), Ret([isNone |-> FALSE, data |-> NoneValue]) })
    \cup OutageRaises

\* supabase.auth.sign_up(credentials)
SignUpResults(user) ==
    { Ret(AuthResponse(UserObj(user.email.local,
              [username |-> user.username, full_name |-> user.full_name, avatar_url |-> NONE]),
              NoSession)),
      Ret(AuthResponse(NoUser, NoSession)) } \cup OutageRaises

\* supabase.auth.reset_password_email(email)
ResetEmailResults == {Ret(NoneValue)} \cup OutageRaises

\* ------------------------------------------- what the calls leave behind
\* The client keeps the session of a successful sign-in, refresh or
\* set_session in memory and drops it on sign_out.
RECURSIVE SessionAfter(_, _)
SessionAfter(session, calls) ==
    IF calls = << >> THEN session
    ELSE LET c == Head(calls)
             s == IF IsRaise(c.result) THEN session
                  ELSE IF c.op \in {"sign_in_with_password", "refresh_session", "set_session"}
                  THEN IF c.result.value.session.isNone THEN session
                       ELSE c.result.value.session
                  ELSE IF c.op = "sign_out" THEN NoSession
                  ELSE session
         IN SessionAfter(s, Tail(calls))

RECURSIVE MetadataAfter(_, _)
MetadataAfter(metadata, calls) ==
    IF calls = << >> THEN metadata
    ELSE LET c == Head(calls)
             m == IF c.op = "update_user" /\ ~IsRaise(c.result) /\ ~c.result.value.user.isNone
                  THEN [metadata EXCEPT ![c.result.value.user.id] = c.result.value.user.user_metadata]
                  ELSE metadata
         IN MetadataAfter(m, Tail(calls))

\* =================================================================== state
VARIABLES
    session,      \* the session held in memory by the client get_supabase_client() returns
    metadata,     \* provider: user_metadata of each account
    req,          \* the request being answered
    resp,         \* the HTTP response to it
    trace,        \* what answering it did: provider calls, dependency result, handler run, audit tasks
    tasks,        \* audit tasks created on the event loop and not yet run
    wrapped,      \* the last call of a handler wrapped by audit_action
    logged,       \* the last run of log_audit_action
    audit_logs,   \* provider: rows of the audit_logs table
    raised,       \* the application error last constructed
    converted,    \* the HTTPException create_http_exception made of it
    asgi          \* the last call of JWTMiddleware: its scope and what it did

mainVars == <<session, metadata, req, resp, trace>>
auditVars == <<tasks, wrapped, logged, audit_logs>>
excVars == <<raised, converted>>
jwtVars == <<asgi>>
vars == <<mainVars, auditVars, excVars, jwtVars>>

InitMetadata ==
    [u \in Users |-> IF u = "u1"
                     THEN [username |-> "neo", full_name |-> NONE, avatar_url |-> NONE]
                     ELSE EmptyMetadata]
NoRequest == [bearer |-> NoBearer, route |-> "none", input |-> NoneValue]
NoTrace ==
    [calls |-> << >>, scheduled |-> << >>, ran |-> FALSE, foreign |-> FALSE,
     inner |-> Ret(NoneValue), auth |-> Ret(NoneValue)]

NoWrapped ==
    [kind |-> "none", body |-> NoRequestBody, scheduled |-> << >>,
     inner |-> Ret(NoneValue), outer |-> Ret(NoneValue)]
NoLogged == [out |-> Ret(NoneValue), client |-> Ret(NoneValue), insert |-> Ret(NoneValue), ran |-> FALSE]
AuditInit ==
    /\ tasks = << >>
    /\ wrapped = NoWrapped
    /\ logged = NoLogged
    /\ audit_logs = {}
NoExc == [cls |-> "none"]
ExcInit ==
    /\ raised = NoExc
    /\ converted = NoExc
NoScope == [type |-> "none", path |-> << >>, authorization |-> NoHeader]
JwtInit ==
    asgi = [user |-> NoUser, clock |-> Clock(0, 0, FALSE), scope |-> NoScope,
            app_calls |-> 0, sent |-> << >>, verify |-> NotVerified]

MainInit ==
    /\ session = NoSession             \* create_client(): no session yet
    /\ metadata = InitMetadata
    /\ req = NoRequest
    /\ resp = [detail |-> NoDetail, status |-> 0, body |-> NoBody, unhandled |-> FALSE]
    /\ trace = NoTrace

\* Does a call of the request act on a session that an earlier request left
\* in the shared client?
SessionUsers == {"sign_out", "get_user()", "update_user", "delete_user"}
SessionSetters == {"sign_in_with_password", "refresh_session", "set_session"}
RECURSIVE ForeignSessionUse(_, _, _)
ForeignSessionUse(held, own, calls) ==
    IF calls = << >> THEN FALSE
    ELSE LET c == Head(calls)
         IN \/ (c.op \in SessionUsers /\ ~held.isNone /\ ~own)
            \/ ForeignSessionUse(SessionAfter(held, <<c>>),
                                 own \/ (/\ c.op \in SessionSetters
                                         /\ ~IsRaise(c.result)
                                         /\ ~c.result.value.session.isNone),
                                 Tail(calls))

\* Depends(get_current_user): the security scheme, then the dependency; the
\* route handler runs only if both produced a value.
NotCalled == Ret(NoneValue)
AuthResults(bearer) ==
    IF bearer.present THEN GetUserByTokenResults(bearer.token, metadata) ELSE {NotCalled}
\* mutant: the route does not require the bearer credentials
Dependency_optional(bearer, sec, ra) ==
    IF IsRaise(sec)
    THEN [out |-> Ret([email |-> Email("nobody"), id |-> NONE,
                       user_metadata |-> EmptyMetadata, role |-> "user"]),
          calls |-> << >>,
          pass |-> TRUE]
    ELSE LET d == get_current_user(bearer, ra)
         IN [out |-> d.out, calls |-> d.calls, pass |-> ~IsRaise(d.out)]

Dependency(bearer, sec, ra) ==
    IF IsRaise(sec) THEN [out |-> sec, calls |-> << >>, pass |-> FALSE]
    ELSE LET d == get_current_user(bearer, ra)
         IN [out |-> d.out, calls |-> d.calls, pass |-> ~IsRaise(d.out)]
Open == [out |-> NotCalled, calls |-> << >>, pass |-> TRUE]
\* Depends(get_optional_current_user): its credentials parameter is again
\* Depends(security), resolved before the function body runs.
OptionalDependency(bearer, sec, ra) ==
    IF IsRaise(sec) THEN [out |-> sec, calls |-> << >>, pass |-> FALSE]
    ELSE LET d == get_optional_current_user(bearer, ra)
         IN [out |-> d.out, calls |-> d.calls, pass |-> ~IsRaise(d.out)]
Skipped(pre) == [out |-> pre.out, calls |-> << >>]
\* The framework parses the JSON body into the handler's schema before the
\* handler runs and answers 422 itself when the body does not validate.
RequestValidation(schema, body) ==
    IF Validates(schema, body) THEN Open
    ELSE [out |-> Raise(HTTPException(422, <<"value", "is", "not", "valid">>)),
          calls |-> << >>, pass |-> FALSE]

Answer(route, bearer, input, pre, h, inner, scheduled) ==
    /\ req' = [bearer |-> bearer, route |-> route, input |-> input]
    /\ resp' = Respond(h.out)
    /\ trace' = [calls |-> pre.calls \o h.calls, scheduled |-> scheduled,
                 ran |-> pre.pass,
                 foreign |-> ForeignSessionUse(session, FALSE, h.calls), inner |-> inner,
                 auth |-> pre.out]
    /\ session' = SessionAfter(session, h.calls)
    /\ metadata' = MetadataAfter(metadata, h.calls)
    /\ UNCHANGED <<auditVars, excVars, jwtVars>>

\* ------------------------------------------------------------ the routes
\* bodies as they arrive: the well-formed ones, and ones with a field missing
\* or an email that is no address
BodyEmails == Emails \cup {MalformedEmail, MissingEmail}
LoginBodies == [email : BodyEmails, password : Passwords \cup {Missing}]
RegisterBodies ==
    UserRegister
    \cup [email : {MalformedEmail, MissingEmail}, password : {"pw"},
          full_name : {"v"}, username : {NONE}]
    \cup [email : {Email("u1")}, password : {Missing}, full_name : {"v"}, username : {NONE}]

Login ==
    \E user \in LoginBodies :
      LET pre == RequestValidation("UserLogin", user)
      IN \E r \in IF pre.pass THEN SignInResults(user, metadata) ELSE {NotCalled} :
           LET h == IF pre.pass THEN login(user, r) ELSE Skipped(pre)
           IN Answer("POST /auth/login", NoBearer, user, pre, h, h.out, << >>)

Refresh ==
    \E token \in RefreshInputs :
      \E r \in RefreshResults(token, metadata) :
        LET h == refresh_token(token, r)
        IN Answer("POST /auth/refresh", NoBearer, [refresh_token |-> token], Open, h, h.out, << >>)

Register ==
    \E user \in RegisterBodies :
      LET pre == RequestValidation("UserRegister", user)
      IN \E lookup \in IF pre.pass THEN LookupResults(user.email, metadata) ELSE {NotCalled} :
           \E r \in IF ~pre.pass \/ IsRaise(lookup)
                       \/ (~lookup.value.isNone /\ ~lookup.value.data.isNone)
                    THEN {NotCalled} ELSE SignUpResults(user) :
             LET h == IF pre.pass THEN register(user, lookup, r) ELSE Skipped(pre)
             IN Answer("POST /auth/register", NoBearer, user, pre, h, h.out, << >>)

ForgotPassword ==
    \E email \in BodyEmails :
      LET pre == RequestValidation("PasswordReset", [email |-> email])
      IN \E r \in IF pre.pass THEN ResetEmailResults ELSE {NotCalled} :
           LET h == IF pre.pass THEN forgot_password(email, r) ELSE Skipped(pre)
           IN Answer("POST /auth/forgot-password", NoBearer, [email |-> email], pre, h, h.out, << >>)

ResetPassword ==
    \E confirm \in PasswordResetConfirm :
      \E set \in SetSessionResults(confirm.token, metadata) :
        \E upd \in IF IsRaise(set) \/ set.value.session.isNone
                   THEN {NotCalled}
                   ELSE UpdateUserResults(SessionAfter(session, <<Call("set_session", set)>>),
                                          metadata, {}, OutageRaises) :
          LET h == reset_password(confirm, set, upd)
          IN Answer("POST /auth/reset-password", NoBearer, confirm, Open, h, h.out, << >>)

Logout ==
    \E bearer \in Bearers :
      \E sec \in security(bearer), ra \in AuthResults(bearer) :
        LET pre == Dependency(bearer, sec, ra)
        IN \E r \in IF pre.pass THEN SignOutResults ELSE {NotCalled} :
             LET h == IF pre.pass THEN logout(pre.out.value, r) ELSE Skipped(pre)
             IN Answer("POST /auth/logout", bearer, NoneValue, pre, h, h.out, << >>)

Me ==
    \E bearer \in Bearers :
      \E sec \in security(bearer), ra \in AuthResults(bearer) :
        LET pre == Dependency(bearer, sec, ra)
            h == IF pre.pass THEN get_current_user_info(pre.out.value) ELSE Skipped(pre)
        IN Answer("GET /auth/me", bearer, NoneValue, pre, h, h.out, << >>)

GetProfile ==
    \E bearer \in Bearers :
      \E sec \in security(bearer), ra \in AuthResults(bearer) :
        LET pre == Dependency(bearer, sec, ra)
        IN \E r \in IF pre.pass THEN GetUserStoredResults(session, metadata) ELSE {NotCalled} :
             LET h == IF pre.pass THEN get_user_profile(pre.out.value, r) ELSE Skipped(pre)
             IN Answer("GET /user/profile", bearer, NoneValue, pre, h, h.out, << >>)

\* the JSON body of a profile update, as the audit wrapper re-reads it
ProfileBody(pu) ==
    JDict({ <<f, IF pu[f] = NONE THEN JNull ELSE JStr(pu[f])>> : f \in ProfileFields })

UpdateProfile ==
    \E bearer \in Bearers, pu \in UserProfileUpdate :
      \E sec \in security(bearer), ra \in AuthResults(bearer) :
        LET pre == Dependency(bearer, sec, ra)
        IN \E r \in IF pre.pass /\ update_data_of(pu) # {}
                    THEN UpdateUserResults(session, metadata, update_data_of(pu), ProfileRaises)
                    ELSE {NotCalled} :
             LET inner == IF pre.pass THEN update_user_profile(pu, pre.out.value, r)
                          ELSE Skipped(pre)
                 w == IF pre.pass
                      THEN async_wrapper("UPDATE", "user", pre.out.value.id, ProfileBody(pu),
                                         inner.out)
                      ELSE [out |-> pre.out, scheduled |-> << >>]
                 h == [out |-> w.out, calls |-> inner.calls]
             IN Answer("PUT /user/profile", bearer, pu, pre, h, inner.out, w.scheduled)

DeleteUser ==
    \E bearer \in Bearers :
      \E sec \in security(bearer), ra \in AuthResults(bearer) :
        LET pre == Dependency(bearer, sec, ra)
        IN \E r \in IF pre.pass THEN DeleteUserResults(session, metadata) ELSE {NotCalled} :
             LET inner == IF pre.pass THEN delete_user(pre.out.value, r) ELSE Skipped(pre)
                 w == IF pre.pass
                      THEN async_wrapper("DELETE", "user", pre.out.value.id, NoRequestBody,
                                         inner.out)
                      ELSE [out |-> pre.out, scheduled |-> << >>]
                 h == [out |-> w.out, calls |-> inner.calls]
             IN Answer("DELETE /user/", bearer, NoneValue, pre, h, inner.out, w.scheduled)

\* a request whose endpoint depends on get_optional_current_user and answers
\* with what the dependency gave it
OptionalRoute == "Depends(get_optional_current_user)"
OptionalAuth ==
    \E bearer \in Bearers :
      \E sec \in security(bearer), ra \in AuthResults(bearer) :
        LET pre == OptionalDependency(bearer, sec, ra)
            h == Skipped(pre)
        IN Answer(OptionalRoute, bearer, NoneValue, pre, h, h.out, << >>)

MainNext ==
    \/ Login \/ Refresh \/ Register \/ ForgotPassword \/ ResetPassword
    \/ Logout \/ Me \/ GetProfile \/ UpdateProfile \/ DeleteUser
    \/ OptionalAuth

Init == MainInit /\ AuditInit /\ ExcInit /\ JwtInit
Next == MainNext
Spec == Init /\ [][Next]_vars

\* ====================================== the audit decorator and the logger
\* Handlers wrapped by audit_action are called, the tasks they create wait on
\* the event loop, and the loop runs log_audit_action for each.
HandlerOutcomes ==
    { Ret([message |-> <<"done">>, type |-> "dict"]),
      Raise(create_http_exception(ValidationError(<<"No", "data">>, DictNone))),
      Raise(ConnectError) }
\* what extract_request_body gives the wrapper: nothing, or the parsed JSON
AuditedBodies ==
    { NoRequestBody,
      JDict({ <<"username", JStr("v")>>, <<"Password", JStr("pw")>>,
              <<"profile", JDict({<<"token", JStr("tok")>>, <<"name", JStr("v")>>})>>,
              <<"members", JList(<< JDict({<<"password", JStr("pw")>>}) >>)>> }),
      JList(<< JDict({<<"api_key", JStr("key")>>, <<"name", JStr("v")>>}) >>) }

AuditedAsyncCall ==
    \E o \in HandlerOutcomes, body \in AuditedBodies :
      LET w == async_wrapper("UPDATE", "user", "u1", body, o)
      IN /\ Len(tasks) + Len(w.scheduled) <= MaxAuditTasks
         /\ tasks' = tasks \o w.scheduled
         /\ wrapped' = [kind |-> "async", body |-> body, scheduled |-> w.scheduled,
                        inner |-> o, outer |-> w.out]
         /\ UNCHANGED <<logged, audit_logs, mainVars, excVars, jwtVars>>

\* A sync handler runs on the event-loop thread when a coroutine calls it
\* directly and on a worker thread, without a running loop, when the
\* framework dispatches it.
AuditedSyncCall ==
    \E o \in HandlerOutcomes, loopRunning \in BOOLEAN :
      LET w == sync_wrapper("UPDATE", "user", "u1", o, loopRunning)
      IN /\ Len(tasks) + Len(w.scheduled) <= MaxAuditTasks
         /\ tasks' = tasks \o w.scheduled
         /\ wrapped' = [kind |-> "sync", body |-> NoRequestBody, scheduled |-> w.scheduled,
                        inner |-> o, outer |-> w.out]
         /\ UNCHANGED <<logged, audit_logs, mainVars, excVars, jwtVars>>

ServiceRoleKeys == {NONE, "service-role-key"}        \* settings.supabase_service_role_key
AdminClient == Ret([isNone |-> FALSE, client |-> "admin"])
\* create_client(url, service_role_key)
CreateClientResults ==
    { AdminClient, Raise(PlainError("SupabaseException", <<"Invalid", "API", "key">>)) }
\* supabase_admin.table("audit_logs").insert(audit_record).execute()
InsertResults ==
    { Ret([isNone |-> FALSE, data |-> "row"]),
      Ret([isNone |-> FALSE, data |-> "empty"]),
      Raise(ApiError(<<"relation", "audit_logs", "does", "not", "exist">>)),
      Raise(PlainError("ConnectionRefusedError", <<"connection", "refused">>)),
      Raise(PlainError("TimeoutError", <<"timed", "out">>)) }

RunAuditTask ==
    /\ tasks # << >>
    /\ \E key \in ServiceRoleKeys, created \in CreateClientResults, insert \in InsertResults :
         LET client == get_supabase_admin_client(key, created)
             written == ~IsRaise(client) /\ ~IsRaise(insert) /\ insert.value.data = "row"
         IN /\ logged' = [out |-> log_audit_action(Head(tasks), client, insert),
                          client |-> client,
                          insert |-> IF IsRaise(client) THEN NotCalled ELSE insert,
                          ran |-> TRUE]
            /\ audit_logs' = IF written THEN audit_logs \cup {Head(tasks).action} ELSE audit_logs
    /\ tasks' = Tail(tasks)
    /\ UNCHANGED <<wrapped, mainVars, excVars, jwtVars>>

AuditNext == AuditedAsyncCall \/ AuditedSyncCall \/ RunAuditTask
SpecAudit == Init /\ [][AuditNext]_vars

\* ================================================ the error taxonomy in use
DefaultMessage(cls) ==
    CASE cls = "AuthenticationError" -> <<"Authentication", "failed">>
      [] cls = "AuthorizationError" -> <<"Access", "denied">>
      [] cls = "ValidationError" -> <<"Validation", "failed">>
      [] cls = "NotFoundError" -> <<"Resource", "not", "found">>
      [] cls = "ConflictError" -> <<"Resource", "conflict">>
      [] cls = "ExternalServiceError" -> <<"External", "service", "error">>
ErrorMessages(cls) ==
    { DefaultMessage(cls), <<"Invalid", "Token">>, <<"Failed", "to", "update", "profile">> }
ErrorDetails ==
    { DictNone, Dict({}), Dict({<<"field", "email">>}),
      Dict({<<"field", "email">>, <<"reason", "taken">>}) }

RaiseAuthentication ==
    \E d \in ErrorDetails, m \in ErrorMessages("AuthenticationError") :
        raised' = AuthenticationError(m, d)
RaiseAuthorization ==
    \E d \in ErrorDetails, m \in ErrorMessages("AuthorizationError") :
        raised' = AuthorizationError(m, d)
RaiseValidation ==
    \E d \in ErrorDetails, m \in ErrorMessages("ValidationError") :
        raised' = ValidationError(m, d)
RaiseNotFound ==
    \E d \in ErrorDetails, m \in ErrorMessages("NotFoundError") :
        raised' = NotFoundError(m, d)
RaiseConflict ==
    \E d \in ErrorDetails, m \in ErrorMessages("ConflictError") :
        raised' = ConflictError(m, d)
RaiseExternalService ==
    \E d \in ErrorDetails, m \in ErrorMessages("ExternalServiceError") :
        raised' = ExternalServiceError(m, d)

RaiseAppError ==
    /\ \/ RaiseAuthentication \/ RaiseAuthorization \/ RaiseValidation
       \/ RaiseNotFound \/ RaiseConflict \/ RaiseExternalService
    /\ converted' = NoExc
    /\ UNCHANGED <<mainVars, auditVars, jwtVars>>

ConvertAppError ==
    /\ raised # NoExc
    /\ converted = NoExc
    /\ converted' = create_http_exception(raised)
    /\ UNCHANGED <<raised, mainVars, auditVars, jwtVars>>

ExcNext == RaiseAppError \/ ConvertAppError
SpecExc == Init /\ [][ExcNext]_vars

\* ============================================== requests through JWTMiddleware
ScopeTypes == {"http", "websocket"}
RequestPaths ==
    { <<"/">>, <<"/", "docs">>, <<"/", "health">>, <<"/", "health", "/", "live">>,
      <<"/", "health", "check-admin">>,
      <<"/", "auth", "/", "login">>, <<"/", "auth", "/", "login", "-as">>,
      <<"/", "auth", "/", "me">>, <<"/", "user", "/", "profile">> }
ExpClaims == { NoExp } \cup { Exp(at) : at \in {1, 2, 3, 9} }
Jwts ==
    { Jwt(signed, exp, sub, role) :
        signed \in BOOLEAN, exp \in ExpClaims,
        sub \in {AbsentClaim, "", "u1"}, role \in {AbsentClaim, "admin"} }
GoodJwt == Jwt(TRUE, Exp(3), "u1", AbsentClaim)
AuthorizationHeaders ==
    { NoHeader, EmptyHeader, Header(<< >>), Header(<<Word("Bearer")>>),
      Header(<<Word("Bearer"), GoodJwt, GoodJwt>>),
      Header(<<Word("Bearer"), Word("garbage")>>) }
    \cup { Header(<<Word("Bearer"), t>>) : t \in Jwts }
    \cup { Header(<<Word(s), GoodJwt>>) : s \in {"bearer", "BEARER", "Basic", "Token"} }
Clocks == { Clock(2, 2, FALSE), Clock(2, 2, TRUE), Clock(2, 3, FALSE) }

MiddlewareCall ==
    \E type \in ScopeTypes, path \in RequestPaths,
       authorization \in AuthorizationHeaders, clock \in Clocks :
      LET scope == [type |-> type, path |-> path, authorization |-> authorization]
          m == JWTMiddleware_call(scope, clock)
      IN /\ asgi' = [user |-> m.user, clock |-> clock, scope |-> scope,
                     app_calls |-> m.app_calls, sent |-> m.sent, verify |-> m.verify]
         /\ UNCHANGED <<mainVars, auditVars, excVars>>

JwtNext == MiddlewareCall
SpecJwt == Init /\ [][JwtNext]_vars

\* ================================================================== claims
SomeCallRaised == \E i \in 1..Len(trace.calls) : IsRaise(trace.calls[i].result)

\* C1: a login with credentials the provider does not accept is answered 401
\* without a token, however the provider reports the rejection (a response
\* without user or session, or an error raised by sign_in_with_password).
C1_RejectedLoginIs401 ==
    (/\ req.route = "POST /auth/login"
     /\ trace.ran
     /\ ~Accepts(req.input)
     /\ trace.calls[1].result \in RejectionReports(req.input, metadata))
    => (resp.status = 401 /\ resp.body = NoBody)

\* C2: when sign_in_with_password returns a user and a session, login answers
\* 200 with exactly the session's access_token, refresh_token and expires_in
\* and token_type "bearer".
LoginSucceededAtProvider ==
    /\ req.route = "POST /auth/login"
    /\ trace.ran
    /\ ~IsRaise(trace.calls[1].result)
    /\ ~trace.calls[1].result.value.user.isNone
    /\ ~trace.calls[1].result.value.session.isNone
C2_LoginRelaysTokens ==
    LoginSucceededAtProvider
    => (/\ resp.status = 200
        /\ resp.body.type = "TokenResponse"
        /\ resp.body.access_token = trace.calls[1].result.value.session.access_token
        /\ resp.body.refresh_token = trace.calls[1].result.value.session.refresh_token
        /\ resp.body.expires_in = trace.calls[1].result.value.session.expires_in
        /\ resp.body.token_type = "bearer")
C2_Witness ==
    /\ LoginSucceededAtProvider
    /\ resp.status = 200
    /\ resp.body.access_token = <<"access", "u2", 1>>

\* C3: registering an email whose record the users-table lookup returns is
\* answered 200 with status "exists" and message "User is already registered";
\* sign_up is never called for an email that has a record, and is called only
\* after a lookup that found none.
LookupFoundRecord ==
    /\ req.route = "POST /auth/register"
    /\ trace.ran
    /\ ~IsRaise(trace.calls[1].result)
    /\ ~trace.calls[1].result.value.isNone
    /\ ~trace.calls[1].result.value.data.isNone
LookupFoundNothing ==
    /\ req.route = "POST /auth/register"
    /\ trace.ran
    /\ ~IsRaise(trace.calls[1].result)
    /\ (trace.calls[1].result.value.isNone \/ trace.calls[1].result.value.data.isNone)
C3_ExistingUserNotSignedUp ==
    /\ LookupFoundRecord
       => (/\ resp.status = 200
           /\ resp.body.status = "exists"
           /\ resp.body.message = <<"User", "is", "already", "registered">>
           /\ "sign_up" \notin Ops(trace.calls))
    /\ (req.route = "POST /auth/register" /\ "sign_up" \in Ops(trace.calls))
       => LookupFoundNothing
C3_Witness ==
    /\ LookupFoundRecord
    /\ resp.body.status = "exists"
    /\ req.input.email = Email("u1")

\* C4: a profile update whose username, full_name and avatar_url are each
\* absent, null or empty is answered 422 "No profile data provided for update"
\* by the handler, and update_user is not called.
EmptyProfileUpdate ==
    /\ req.route = "PUT /user/profile"
    /\ \A f \in ProfileFields : req.input[f] \in {NONE, ""}
C4_EmptyUpdateIs422 ==
    /\ (EmptyProfileUpdate /\ trace.ran)
       => (/\ resp.status = 422
           /\ resp.detail.message = <<"No", "profile", "data", "provided", "for", "update">>)
    /\ EmptyProfileUpdate => "update_user" \notin Ops(trace.calls)
C4_Witness ==
    /\ EmptyProfileUpdate
    /\ trace.ran
    /\ req.input["username"] = ""
    /\ req.input["full_name"] = NONE
    /\ resp.status = 422

\* C5: a protected route called without a bearer token is answered 401 or 403,
\* and neither its handler nor any provider operation runs.
ProtectedRoutes ==
    {"POST /auth/logout", "GET /auth/me", "GET /user/profile", "PUT /user/profile",
     "DELETE /user/"}
C7_NoSessionCarriedOver == ~trace.foreign

\* C8: whenever a provider call raised while a request was answered, the
\* answer is an HTTP error with status 400, 401, 404, 409, 422, 500 or 502 and
\* no other exception leaves the handler.
HandlerErrorStatuses == {400, 401, 404, 409, 422, 500, 502}
HandlerRoutes ==
    ProtectedRoutes \cup {"POST /auth/login", "POST /auth/register", "POST /auth/refresh",
                          "POST /auth/forgot-password", "POST /auth/reset-password"}
C8_ProviderErrorsBecomeHttpErrors ==
    (req.route \in HandlerRoutes /\ SomeCallRaised)
    => (~resp.unhandled /\ resp.status \in HandlerErrorStatuses)
C8_Witness ==
    /\ req.route = "PUT /user/profile"
    /\ trace.ran
    /\ SomeCallRaised
    /\ resp.status = 409

\* C6: a handler wrapped by audit_action has exactly the outcome of the
\* unwrapped handler, with the async and with the sync wrapper, whether or not
\* the audit task could be scheduled.
C6_WrapperKeepsOutcome ==
    wrapped.kind # "none" => wrapped.outer = wrapped.inner

\* C9: every error category has its fixed status (authentication 401,
\* validation 422, not-found 404, conflict 409, external-service 502) and
\* create_http_exception keeps that status, the message and the details.
CategoryStatus ==
    [c \in {"AuthenticationError", "ValidationError", "NotFoundError", "ConflictError",
            "ExternalServiceError"} |->
        CASE c = "AuthenticationError" -> 401
          [] c = "ValidationError" -> 422
          [] c = "NotFoundError" -> 404
          [] c = "ConflictError" -> 409
          [] c = "ExternalServiceError" -> 502]
C9_CategoryStatusKept ==
    /\ raised.cls \in DOMAIN CategoryStatus => raised.status_code = CategoryStatus[raised.cls]
    /\ (raised.cls \in DOMAIN CategoryStatus /\ converted # NoExc)
       => (/\ converted.cls = "HTTPException"
           /\ converted.status_code = CategoryStatus[raised.cls]
           /\ converted.detail.message = raised.message
           /\ converted.detail.details = raised.details)
C9_Witness ==
    /\ raised.cls = "ConflictError"
    /\ raised.details = Dict({<<"field", "email">>, <<"reason", "taken">>})
    /\ converted # NoExc
    /\ converted.status_code = 409

\* C10: log_audit_action returns None and never raises, whatever error the
\* creation of the admin client or the insert produces.
C10_AuditLoggerNeverRaises ==
    logged.ran => logged.out = Ret(NoneValue)

\* C11: get_current_user yields a user record only when get_user(token)
\* returned a user for the presented token, and the record carries that user's
\* id and email; every other outcome of the call (no user, an error raised, a
\* malformed response) is answered 401 and yields no record.
DependencyCalled == req.route \in ProtectedRoutes /\ req.bearer.present
ProviderReturnedUser ==
    /\ ~IsRaise(trace.calls[1].result)
    /\ ~trace.calls[1].result.value.isNone
    /\ ~trace.calls[1].result.value.user.isNone
C11_UserOnlyFromProvider ==
    DependencyCalled =>
      /\ trace.calls[1].op = "get_user(token)"
      /\ IF ProviderReturnedUser
         THEN /\ ~IsRaise(trace.auth)
              /\ trace.auth.value.id = trace.calls[1].result.value.user.id
              /\ trace.auth.value.email = trace.calls[1].result.value.user.email
              /\ IsAccessTokenOf(req.bearer.token, trace.auth.value.id)
         ELSE /\ IsRaise(trace.auth)
              /\ trace.auth.exc.cls = "HTTPException"
              /\ trace.auth.exc.status_code = 401
              /\ resp.status = 401
              /\ ~trace.ran
C11_Witness ==
    /\ DependencyCalled
    /\ ProviderReturnedUser
    /\ req.route = "GET /auth/me"
    /\ trace.auth.value.id = "u2"
    /\ resp.status = 200

\* C12: a refresh for which refresh_session returns a response without a
\* session is answered 401 with the structured message "Invalid refresh token".
C12_NoSessionRefreshIs401 ==
    (/\ req.route = "POST /auth/refresh"
     /\ ~IsRaise(trace.calls[1].result)
     /\ trace.calls[1].result.value.session.isNone)
    => (/\ resp.status = 401
        /\ resp.detail.structured
        /\ Contains(resp.detail.message, <<"Invalid", "refresh", "token">>))

\* C13: reset-password calls update_user only after set_session returned an
\* established session; when set_session returns no session the answer is 422
\* "Failed to establish session" and update_user is not called.
SetSessionGaveNoSession ==
    /\ req.route = "POST /auth/reset-password"
    /\ ~IsRaise(trace.calls[1].result)
    /\ trace.calls[1].result.value.session.isNone
C13_UpdateOnlyAfterSession ==
    /\ (req.route = "POST /auth/reset-password" /\ "update_user" \in Ops(trace.calls))
       => (/\ Len(trace.calls) = 2
           /\ trace.calls[1].op = "set_session"
           /\ ~IsRaise(trace.calls[1].result)
           /\ ~trace.calls[1].result.value.session.isNone
           /\ trace.calls[2].op = "update_user")
    /\ SetSessionGaveNoSession
       => (/\ resp.status = 422
           /\ resp.detail.message = <<"Failed", "to", "establish", "session">>
           /\ "update_user" \notin Ops(trace.calls))
C13_Witness ==
    /\ SetSessionGaveNoSession
    /\ req.input.token = <<"garbage">>
    /\ resp.status = 422
    /\ ~session.isNone

\* C14: forgot-password is answered 422 with the structured message "Failed
\* to send password reset email" when the provider call that should produce
\* the reset link fails.
C14_NoResetLinkIs422 ==
    (req.route = "POST /auth/forgot-password" /\ SomeCallRaised)
    => (/\ resp.status = 422
        /\ resp.detail.structured
        /\ Contains(resp.detail.message, <<"Failed", "to", "send", "password", "reset", "email">>))

\* C15: a forgot-password answered 200 "Password reset email sent" has obtained
\* a reset link from the admin client and sent exactly one templated email.
CountOps(calls, op) == Cardinality({ i \in 1..Len(calls) : calls[i].op = op })
C15_ResetLinkAndOneEmail ==
    (req.route = "POST /auth/forgot-password" /\ resp.status = 200)
    => (/\ resp.body.message = <<"Password", "reset", "email", "sent">>
        /\ "auth.admin.generate_link" \in Ops(trace.calls)
        /\ CountOps(trace.calls, "send_templated_email") = 1)

\* C16: DELETE /user/ is answered 502 with the structured message "Failed to
\* delete user" when the provider's delete_user returns a response without user.
DeleteReturnedNoUser ==
    /\ req.route = "DELETE /user/"
    /\ trace.ran
    /\ Len(trace.calls) = 2
    /\ trace.calls[2].op = "delete_user"
    /\ ~IsRaise(trace.calls[2].result)
    /\ trace.calls[2].result.value.user.isNone
C16_DeleteNoUserIs502 ==
    DeleteReturnedNoUser
    => (/\ resp.status = 502
        /\ resp.detail.structured
        /\ Contains(resp.detail.message, <<"Failed", "to", "delete", "user">>))

LogoutSignedOut ==
    /\ req.route = "POST /auth/logout"
    /\ trace.ran
    /\ Len(trace.calls) = 2
    /\ trace.calls[2].op = "sign_out"
    /\ ~IsRaise(trace.calls[2].result)
C18_OptionalUserNeverRaises ==
    req.route = OptionalRoute =>
      /\ ~IsRaise(trace.auth)
      /\ resp.status = 200
      /\ IF req.bearer.present /\ ProviderReturnedUser
         THEN trace.auth.value.id = trace.calls[1].result.value.user.id
         ELSE trace.auth = Ret(NoneValue)

\* C19: a login, register or forgot-password request whose body lacks a
\* required field (email; password for login and register) or whose email is
\* malformed is answered 422 and no provider call is made.
BodyRoutes == {"POST /auth/login", "POST /auth/register", "POST /auth/forgot-password"}
BodyLacksFieldOrEmailMalformed ==
    /\ req.route \in BodyRoutes
    /\ \/ req.input.email.local = Missing
       \/ req.input.email.domain = ""
       \/ (req.route # "POST /auth/forgot-password" /\ req.input.password = Missing)
C19_InvalidBodyIs422 ==
    BodyLacksFieldOrEmailMalformed
    => (/\ resp.status = 422
        /\ ~trace.ran
        /\ trace.calls = << >>)
C19_Witness ==
    /\ req.route = "POST /auth/login"
    /\ req.input.email = Email("u1")
    /\ req.input.password = Missing
    /\ resp.status = 422
    /\ ~session.isNone

\* C20: a GET /user/profile answered 200 carries the profile metadata of the
\* user whose bearer token the request presented, whatever requests of other
\* users were answered before.
TokenOwner(token) == CHOOSE u \in Users : IsAccessTokenOf(token, u)
C20_ProfileOfBearer ==
    (req.route = "GET /user/profile" /\ resp.status = 200)
    => resp.body = ProfileOf(metadata[TokenOwner(req.bearer.token)])

\* C21: a profile update or account deletion is applied to the account of the
\* user whose bearer token the request presented, never to another account.
AccountChanged ==
    /\ req.route \in {"PUT /user/profile", "DELETE /user/"}
    /\ trace.ran
    /\ Len(trace.calls) = 2
    /\ ~IsRaise(trace.calls[2].result)
    /\ ~trace.calls[2].result.value.user.isNone
C21_OnlyOwnAccountChanged ==
    AccountChanged
    => trace.calls[2].result.value.user.id = TokenOwner(req.bearer.token)

\* C22: a logout drops the session of the caller identified by the bearer
\* token and leaves a session that belongs to another user in place.
C22_LogoutRevokesOwnSession ==
    [][(/\ req'.route = "POST /auth/logout"
        /\ trace'.ran
        /\ ~IsRaise(trace'.calls[2].result)
        /\ ~session.isNone)
       => session.owner = TokenOwner(req'.bearer.token)]_vars

\* C23: with JWTMiddleware installed, an HTTP request to a path the
\* middleware does not exclude reaches the downstream application only after
\* its bearer token has been verified, the verified user being in
\* scope["user"]; when the Authorization header is missing or malformed or
\* the token fails verification, the application is not called and exactly
\* one JSON error response, with the status of the failure, is sent.
MiddlewareChecked ==
    /\ asgi.scope.type = "http"
    /\ ~\E excluded \in exclude_paths : startswith(asgi.scope.path, excluded)
HeaderWellFormed(h) ==
    /\ h.present /\ ~h.empty
    /\ Len(h.words) = 2
    /\ h.words[1].text \in {"Bearer", "bearer", "BEARER"}
RequestFailed ==
    \/ ~HeaderWellFormed(asgi.scope.authorization)
    \/ asgi.verify.called /\ IsRaise(asgi.verify.out)
C23_DownstreamOnlyAfterVerification ==
    MiddlewareChecked
    => /\ asgi.app_calls \in {0, 1}
       /\ asgi.app_calls = 1
          => /\ HeaderWellFormed(asgi.scope.authorization)
             /\ asgi.verify.called
             /\ asgi.verify.token = asgi.scope.authorization.words[2]
             /\ ~IsRaise(asgi.verify.out)
             /\ asgi.user = asgi.verify.out.value
             /\ asgi.sent = << >>
       /\ RequestFailed
          => /\ asgi.app_calls = 0
             /\ Len(asgi.sent) = 1
             /\ asgi.sent[1].status_code =
                  IF asgi.verify.called THEN asgi.verify.out.exc.status_code ELSE 401
       /\ ~RequestFailed => asgi.app_calls = 1
C23_Witness ==
    /\ MiddlewareChecked
    /\ asgi.app_calls = 1
    /\ ~asgi.user.isNone
    /\ asgi.user.id = "u1"

\* C24: JWTMiddleware lets a request through without verification only when
\* its path is one of the excluded endpoints or lies beneath one; a path that
\* merely begins with the same characters (/healthcheck-admin,
\* /auth/login-as) needs a valid token.
Beneath(path, endpoint) ==
    /\ startswith(path, endpoint)
    /\ Len(path) > Len(endpoint) => path[Len(endpoint) + 1] = "/"
C24_OnlyExcludedEndpointsExempt ==
    (/\ asgi.scope.type = "http"
     /\ asgi.app_calls = 1
     /\ ~asgi.verify.called)
    => \E endpoint \in exclude_paths : Beneath(asgi.scope.path, endpoint)

\* C25: verify_jwt_token_locally returns no user for a token whose exp lies
\* in the past, whose signature does not verify or that has no sub claim:
\* each of these ends in a 401; a user it returns has a non-empty id equal to
\* the token's sub, and the role "user" unless the token names one.
TokenUnacceptable(token, clock) ==
    /\ token.isJwt
    /\ \/ ~token.signed
       \/ token.exp.present /\ Before(token.exp.at, clock.later)
       \/ token.sub = AbsentClaim
C25_VerifiedUserIsTokenSubject ==
    asgi.verify.called
    => /\ TokenUnacceptable(asgi.verify.token, asgi.clock)
          => /\ IsRaise(asgi.verify.out)
             /\ asgi.verify.out.exc.cls = "HTTPException"
             /\ asgi.verify.out.exc.status_code = 401
       /\ ~IsRaise(asgi.verify.out)
          => /\ asgi.verify.token.isJwt
             /\ asgi.verify.out.value.id = asgi.verify.token.sub
             /\ asgi.verify.out.value.id \notin {"", NONE, AbsentClaim}
             /\ asgi.verify.out.value.role =
                  IF asgi.verify.token.role = AbsentClaim THEN "user"
                  ELSE asgi.verify.token.role
C25_Witness ==
    /\ asgi.verify.called
    /\ ~IsRaise(asgi.verify.out)
    /\ asgi.verify.token.role = AbsentClaim
    /\ asgi.verify.out.value.role = "user"

\* C26: the request body stored in audit metadata holds no value of a
\* sensitive field, at any nesting depth, objects inside lists and a body
\* whose top level is not an object included: it is the request body with
\* each such value replaced by "[REDACTED]" and everything else unchanged.
RECURSIVE Redacted(_)
Redacted(v) ==
    IF v.t = "dict"
    THEN JDict({ << it[1], IF LowerKey(it[1]) \in sensitive_fields THEN JStr("[REDACTED]")
                           ELSE Redacted(it[2]) >> : it \in v.items })
    ELSE IF v.t = "list"
    THEN JList([i \in 1..Len(v.elems) |-> Redacted(v.elems[i])])
    ELSE v
C26_StoredBodyIsRedacted ==
    \A i \in 1..Len(wrapped.scheduled) :
        wrapped.body # NoRequestBody
        => wrapped.scheduled[i].metadata.request_body = Redacted(wrapped.body)

\* C27: each call of a handler wrapped by audit_action schedules exactly one
\* audit record, once the handler has finished: with the given action when
\* the handler returned, with the action suffixed _FAILED and the error text
\* when it raised.
C27_OneRecordPerCall ==
    wrapped.kind # "none"
    => /\ Len(wrapped.scheduled) = 1
       /\ IF IsRaise(wrapped.inner)
          THEN /\ wrapped.scheduled[1].action = "UPDATE_FAILED"
               /\ <<"error", StrExc(wrapped.inner.exc)>> \in wrapped.scheduled[1].metadata.extra
          ELSE wrapped.scheduled[1].action = "UPDATE"

====
